---- MODULE Spec2Model ----
(***************************************************************************)
(* Model of the md-editor backend bootstrap: backend/app/core/config.py    *)
(* (the Settings class and the module-level `settings = Settings()`) and   *)
(* backend/main.py (module initialisation, the three routes, uvicorn.run). *)
(*                                                                         *)
(* The two files delegate to libraries: pydantic-settings (BaseSettings),  *)
(* python-dotenv (load_dotenv), FastAPI/Starlette (CORSMiddleware) and     *)
(* uvicorn (uvicorn.run).  Each library call is modelled at its call site  *)
(* by what the call does with the arguments the source passes.             *)
(*                                                                         *)
(* A str is a sequence of one-character strings, so that the coercions of  *)
(* the declared field types (bool, int, List[str]) and str.lower() are     *)
(* computed on the characters.                                             *)
(***************************************************************************)
EXTENDS Integers, Sequences, FiniteSets, TLC

(***************************************************************************)
(* Bounds of the model.                                                    *)
(***************************************************************************)
\* at most this many KEY=VALUE bindings are supplied, counted over the
\* process environment and the .env file together
MaxSupplied == 2

(***************************************************************************)
(* Characters.                                                             *)
(***************************************************************************)
UpperChars == <<"A","B","C","D","E","F","G","H","I","J","K","L","M",
                "N","O","P","Q","R","S","T","U","V","W","X","Y","Z">>
LowerChars == <<"a","b","c","d","e","f","g","h","i","j","k","l","m",
                "n","o","p","q","r","s","t","u","v","w","x","y","z">>
DigitChars == <<"0","1","2","3","4","5","6","7","8","9">>

LowerChar(c) ==
    IF \E i \in 1..26 : UpperChars[i] = c
    THEN LowerChars[CHOOSE i \in 1..26 : UpperChars[i] = c]
    ELSE c

\* str.lower()
Lower(s) == [i \in 1..Len(s) |-> LowerChar(s[i])]

IsDigit(c) == \E i \in 1..10 : DigitChars[i] = c
DigitVal(c) == (CHOOSE i \in 1..10 : DigitChars[i] = c) - 1

(***************************************************************************)
(* The declared fields of Settings, in declaration order, and their types. *)
(***************************************************************************)
FieldOrder == <<"APP_NAME", "APP_VERSION", "DEBUG", "SECRET_KEY", "ENVIRONMENT",
                "HOST", "PORT", "RELOAD", "DATABASE_URL",
                "ALLOWED_ORIGINS", "ALLOWED_METHODS", "ALLOWED_HEADERS",
                "LOG_LEVEL", "LOG_FORMAT", "DOCS_URL", "REDOC_URL">>
Fields == {FieldOrder[i] : i \in 1..Len(FieldOrder)}
BoolFields == {"DEBUG", "RELOAD"}
IntFields == {"PORT"}
ListFields == {"ALLOWED_ORIGINS", "ALLOWED_METHODS", "ALLOWED_HEADERS"}
StrFields == Fields \ (BoolFields \cup IntFields \cup ListFields)

\* Field(default=...) of every declared field
Defaults ==
    [APP_NAME |-> <<"M","a","r","k","d","o","w","n"," ","D","o","c","u","m","e","n","t"," ",
                    "M","a","n","a","g","e","m","e","n","t"," ","S","y","s","t","e","m">>,
     APP_VERSION |-> <<"0",".","1",".","0">>,
     DEBUG |-> TRUE,
     SECRET_KEY |-> <<"d","e","v","-","s","e","c","r","e","t","-","k","e","y","-","c","h","a",
                      "n","g","e","-","i","n","-","p","r","o","d","u","c","t","i","o","n">>,
     ENVIRONMENT |-> <<"d","e","v","e","l","o","p","m","e","n","t">>,
     HOST |-> <<"0",".","0",".","0",".","0">>,
     PORT |-> 8000,
     RELOAD |-> TRUE,
     DATABASE_URL |-> <<"p","o","s","t","g","r","e","s","q","l",":","/","/","u","s","e","r",
                        ":","p","a","s","s","w","o","r","d","@","l","o","c","a","l","h","o",
                        "s","t",":","5","4","3","2","/","m","d","e","d","i","t","o","r">>,
     ALLOWED_ORIGINS |->
        << <<"h","t","t","p",":","/","/","l","o","c","a","l","h","o","s","t",":","3","0","0","0">>,
           <<"h","t","t","p",":","/","/","1","2","7",".","0",".","0",".","1",":","3","0","0","0">> >>,
     ALLOWED_METHODS |-> << <<"G","E","T">>, <<"P","O","S","T">>, <<"P","U","T">>,
                            <<"D","E","L","E","T","E">>, <<"O","P","T","I","O","N","S">> >>,
     ALLOWED_HEADERS |-> << <<"*">> >>,
     LOG_LEVEL |-> <<"I","N","F","O">>,
     LOG_FORMAT |-> <<"%","(","a","s","c","t","i","m","e",")","s"," ","-"," ","%","(","n","a",
                      "m","e",")","s"," ","-"," ","%","(","l","e","v","e","l","n","a","m","e",
                      ")","s"," ","-"," ","%","(","m","e","s","s","a","g","e",")","s">>,
     DOCS_URL |-> <<"/","d","o","c","s">>,
     REDOC_URL |-> <<"/","r","e","d","o","c">>]

(***************************************************************************)
(* Coercion of a supplied string to the declared type of a field.          *)
(* The annotation `bool`, `int` or `List[str]` on a BaseSettings field is  *)
(* what selects the coercion; each operator computes it on the characters. *)
(***************************************************************************)
\* DEBUG: bool / RELOAD: bool.  The strings a bool field takes as True and
\* as False, compared after lower-casing.
BoolTrueStrs == { <<"1">>, <<"t">>, <<"y">>, <<"o","n">>, <<"y","e","s">>,
                  <<"t","r","u","e">> }
BoolFalseStrs == { <<"0">>, <<"f">>, <<"n">>, <<"n","o">>, <<"o","f","f">>,
                   <<"f","a","l","s","e">> }
BoolOk(s) == Lower(s) \in BoolTrueStrs \cup BoolFalseStrs
\* faulty variant: only the word "true" is taken as True
BoolValTrueWordOnly(s) == Lower(s) = <<"t","r","u","e">>
BoolVal(s) == Lower(s) \in BoolTrueStrs

\* PORT: int.  An optional sign followed by one or more decimal digits.
\* (Inputs with surrounding blanks, "_" separators or a ".0" tail are outside
\* the inputs drawn here.)
IntBody(s) == IF Len(s) > 0 /\ s[1] \in {"-", "+"} THEN Tail(s) ELSE s
IntOk(s) == LET b == IntBody(s) IN Len(b) > 0 /\ \A i \in 1..Len(b) : IsDigit(b[i])
RECURSIVE DigitsVal(_)
DigitsVal(b) == IF b = <<>> THEN 0
                ELSE 10 * DigitsVal(SubSeq(b, 1, Len(b) - 1)) + DigitVal(b[Len(b)])
IntVal(s) == IF Len(s) > 0 /\ s[1] = "-" THEN 0 - DigitsVal(IntBody(s))
             ELSE DigitsVal(IntBody(s))

\* ALLOWED_*: List[str].  The supplied string of a list-valued field is
\* decoded as JSON.  JsonScan reads a JSON array of JSON strings, character by
\* character; st is the scanner's position:
\*   "start"  before the opening bracket      "first"  after "[": a string or "]"
\*   "instr"  inside a quoted string          "after"  after a string: "," or "]"
\*   "item"   after ",": a string             "end"    after the closing bracket
\* (Inputs are drawn without blanks, escapes, numbers, literals or nested arrays.)
RECURSIVE JsonScan(_, _, _, _, _)
JsonScan(s, i, st, cur, items) ==
    IF i > Len(s) THEN [ok |-> st = "end", items |-> items]
    ELSE LET c == s[i] IN
      CASE st = "start" ->
             IF c = "[" THEN JsonScan(s, i + 1, "first", <<>>, items)
             ELSE [ok |-> FALSE, items |-> <<>>]
        [] st \in {"first", "item"} ->
             IF c = "\"" THEN JsonScan(s, i + 1, "instr", <<>>, items)
             ELSE IF c = "]" /\ st = "first" THEN JsonScan(s, i + 1, "end", <<>>, items)
             ELSE [ok |-> FALSE, items |-> <<>>]
        [] st = "instr" ->
             IF c = "\"" THEN JsonScan(s, i + 1, "after", <<>>, Append(items, cur))
             ELSE JsonScan(s, i + 1, "instr", Append(cur, c), items)
        [] st = "after" ->
             IF c = "," THEN JsonScan(s, i + 1, "item", <<>>, items)
             ELSE IF c = "]" THEN JsonScan(s, i + 1, "end", <<>>, items)
             ELSE [ok |-> FALSE, items |-> <<>>]
        [] OTHER -> [ok |-> FALSE, items |-> <<>>]

\* a lone JSON string: valid JSON, but not a list
IsJsonString(s) ==
    /\ Len(s) >= 2
    /\ s[1] = "\"" /\ s[Len(s)] = "\""
    /\ \A i \in 2..(Len(s) - 1) : s[i] # "\""

\* the supplied string decodes as JSON at all
JsonOk(s) == JsonScan(s, 1, "start", <<>>, <<>>).ok \/ IsJsonString(s)
\* ... and the decoded value is a list of strings
ListOk(s) == JsonScan(s, 1, "start", <<>>, <<>>).ok
\* faulty variant: the supplied string is kept whole, as the only item
ListValWhole(s) == <<s>>
ListVal(s) == JsonScan(s, 1, "start", <<>>, <<>>).items

\* the supplied string of field k is acceptable for the field's declared type
CoerceOk(k, s) ==
    CASE k \in BoolFields -> BoolOk(s)
      [] k \in IntFields -> IntOk(s)
      [] k \in ListFields -> ListOk(s)
      [] OTHER -> TRUE

\* the typed value of field k for an acceptable supplied string
Coerce(k, s) ==
    CASE k \in BoolFields -> BoolVal(s)
      [] k \in IntFields -> IntVal(s)
      [] k \in ListFields -> ListVal(s)
      [] OTHER -> s

(***************************************************************************)
(* Settings(): construction of the configuration from the process          *)
(* environment and the .env file.  A source is a mapping from the keys it  *)
(* supplies to the supplied strings (for the file: its KEY=VALUE lines).   *)
(***************************************************************************)
EmptyMap == [k \in {} |-> <<>>]
Bind(m, key, v) == [k \in DOMAIN m \cup {key} |-> IF k = key THEN v ELSE m[k]]

\* Reading one source: every list-valued field the source supplies is decoded
\* as JSON while the source is read, fields taken in declaration order; the
\* first one that does not decode aborts the construction.  The result is the
\* sequence of the offending field (empty when the source reads cleanly).
RECURSIVE FirstUndecodable(_, _)
FirstUndecodable(src, i) ==
    IF i > Len(FieldOrder) THEN <<>>
    ELSE LET k == FieldOrder[i] IN
         IF k \in ListFields /\ k \in DOMAIN src /\ ~JsonOk(src[k]) THEN <<k>>
         ELSE FirstUndecodable(src, i + 1)

\* faulty variant: the file takes precedence over the environment
MergedFileFirst(env, file) ==
    [k \in (DOMAIN env \cup DOMAIN file) \cap Fields |->
        IF k \in DOMAIN file THEN file[k] ELSE env[k]]

\* model_config: the process environment takes precedence over env_file
\* (".env"); names are matched exactly (case_sensitive).
Merged(env, file) ==
    [k \in (DOMAIN env \cup DOMAIN file) \cap Fields |->
        IF k \in DOMAIN env THEN env[k] ELSE file[k]]

NoError == [kind |-> "none", keys |-> {}]
NoSettings == [constructed |-> FALSE]

\* faulty variant: RELOAD defaults to off
FieldDefaultReloadOff(k) == IF k = "RELOAD" THEN FALSE ELSE Defaults[k]
\* Field(default=...) of field k
FieldDefault(k) == Defaults[k]

\* faulty variant: a field whose string is not acceptable takes its default instead
\* of failing the construction
LoadSettingsLenient(env, file) ==
    LET m == Merged(env, file) IN
    [ok |-> TRUE,
     value |-> [k \in Fields |->
                  IF k \in DOMAIN m /\ CoerceOk(k, m[k]) THEN Coerce(k, m[k])
                  ELSE FieldDefault(k)],
     error |-> NoError]

\* Settings(): [ok, value, error].  The environment is read first, then the
\* file; the merged strings are then validated against the declared types,
\* all fields together, and a field no source supplies takes its default.
LoadSettings(env, file) ==
    LET e1 == FirstUndecodable(env, 1)
        e2 == FirstUndecodable(file, 1)
        m == Merged(env, file)
        bad == {k \in DOMAIN m : ~CoerceOk(k, m[k])}
    IN  IF e1 # <<>> THEN
            [ok |-> FALSE, value |-> NoSettings,
             error |-> [kind |-> "SettingsError", keys |-> {e1[1]}]]
        ELSE IF e2 # <<>> THEN
            [ok |-> FALSE, value |-> NoSettings,
             error |-> [kind |-> "SettingsError", keys |-> {e2[1]}]]
        ELSE IF bad # {} THEN
            [ok |-> FALSE, value |-> NoSettings,
             error |-> [kind |-> "ValidationError", keys |-> bad]]
        ELSE
            [ok |-> TRUE,
             value |-> [k \in Fields |->
                          IF k \in DOMAIN m THEN Coerce(k, m[k]) ELSE FieldDefault(k)],
             error |-> NoError]

(***************************************************************************)
(* Inputs: the strings a key may be supplied with, in the process          *)
(* environment and in the .env file.  The two sources draw from disjoint   *)
(* sets, so that a loaded value tells which source it came from.           *)
(***************************************************************************)
EnvSamples(k) ==
    CASE k \in BoolFields ->
           { <<"t","r","u","e">>, <<"F","a","l","s","e">>, <<"1">>, <<"0">>,
             <<"y","e","s">>, <<"m","a","y","b","e">> }
      [] k \in IntFields ->
           { <<"9","0","0","0">>, <<"i","n","v","a","l","i","d","-","p","o","r","t">> }
      [] k \in ListFields ->
           { <<"[","\"","b","\"",",","\"","c","\"","]">>,     \* ["b","c"]
             <<"[","\"","*","\"","]">>,                       \* ["*"]
             <<"b",",","c">>,                                 \* b,c
             <<"\"","b","\"">> }                              \* "b"
      [] OTHER -> { <<"v","2">> }

FileSamples(k) ==
    CASE k \in BoolFields -> { <<"O","F","F">>, <<"2">> }
      [] k \in IntFields -> { <<"9","0","0","1">>, <<"8","0","a">> }
      [] k \in ListFields ->
           { <<"[","\"","d","\"","]">>,                       \* ["d"]
             <<"d",";","e">> }                                \* d;e
      [] OTHER -> { <<"v","3">> }

\* a slot is a key of a source; the slots are numbered so that a set of
\* bindings is enumerated once
NFields == Len(FieldOrder)
NSlots == 2 * NFields
SlotSource(i) == IF i <= NFields THEN "env" ELSE "file"
SlotKey(i) == IF i <= NFields THEN FieldOrder[i] ELSE FieldOrder[i - NFields]
SlotSamples(i) == IF i <= NFields THEN EnvSamples(SlotKey(i)) ELSE FileSamples(SlotKey(i))

\* the increasing sequences of at most n slots above `from`: which keys of
\* which source are supplied
RECURSIVE SlotSeqs(_, _)
SlotSeqs(from, n) ==
    IF n = 0 THEN {<<>>}
    ELSE {<<>>} \cup UNION { { <<i>> \o S : S \in SlotSeqs(i, n - 1) } :
                             i \in (from + 1)..NSlots }

\* the strings the slots of I may be supplied with, slot by slot
RECURSIVE SlotValues(_)
SlotValues(I) ==
    IF I = <<>> THEN {<<>>}
    ELSE {<<v>> \o R : v \in SlotSamples(Head(I)), R \in SlotValues(Tail(I))}

\* source s ("env" or "file") as a mapping from the keys it supplies to the
\* supplied strings, for the slots I supplied with the strings V
SourceOf(I, V, s) ==
    [k \in {SlotKey(I[j]) : j \in {i \in 1..Len(I) : SlotSource(I[i]) = s}} |->
        V[CHOOSE j \in 1..Len(I) : SlotSource(I[j]) = s /\ SlotKey(I[j]) = k]]

(***************************************************************************)
(* State.  A process is the interpreter started by `python main.py`        *)
(* ("parent") or the server process uvicorn starts when reload is on       *)
(* ("child").                                                              *)
(***************************************************************************)
Procs == {"parent", "child"}

VARIABLES
    environ,    \* environ[p]: os.environ of process p
    dotfile,    \* the KEY=VALUE bindings of the .env file
    pc,         \* pc[p]: the statement of main.py process p executes next
    modname,    \* modname[p]: __name__ of the execution of main.py in progress
    settings,   \* settings[p]: app.core.config.settings of process p
    loads,      \* loads[p]: how many times process p has evaluated Settings()
    error,      \* error[p]: the exception that ended process p, if any
    app,        \* app[p]: the FastAPI application object of the module
    listener,   \* the arguments of uvicorn.run and whether the socket is bound
    response    \* response[p]: the last response process p has sent

vars == <<environ, dotfile, pc, modname, settings, loads, error, app, listener, response>>

NoApp == [built |-> FALSE]
NoListener == [called |-> FALSE, bound |-> FALSE]
NoResponse == [sent |-> FALSE]

Init ==
    /\ \E I \in SlotSeqs(0, MaxSupplied) : \E V \in SlotValues(I) :
          /\ environ = [p \in Procs |-> IF p = "parent" THEN SourceOf(I, V, "env") ELSE EmptyMap]
          /\ dotfile = SourceOf(I, V, "file")
    /\ pc = [p \in Procs |-> IF p = "parent" THEN "import_config" ELSE "unborn"]
    /\ modname = [p \in Procs |-> "__main__"]
    /\ settings = [p \in Procs |-> NoSettings]
    /\ loads = [p \in Procs |-> 0]
    /\ error = [p \in Procs |-> NoError]
    /\ app = [p \in Procs |-> NoApp]
    /\ listener = NoListener
    /\ response = [p \in Procs |-> NoResponse]

(***************************************************************************)
(* main.py, module initialisation.                                         *)
(***************************************************************************)
\* faulty variant: the exception of Settings() is swallowed and the import goes on
ConfigModuleSwallows(env, file) ==
    LET r == LoadSettings(env, file) IN
    [pc |-> "load_dotenv", settings |-> r.value, error |-> r.error]

\* what the module-level statement `settings = Settings()` leaves behind:
\* the new position, the settings object and the exception
ConfigModule(env, file) ==
    LET r == LoadSettings(env, file) IN
    [pc |-> IF r.ok THEN "load_dotenv" ELSE "exited", settings |-> r.value, error |-> r.error]

\* faulty variant: config.py is executed again by every import
ConfigModuleCachedNever(p) == FALSE
\* app.core.config is in sys.modules of process p
ConfigModuleCached(p) == loads[p] > 0

\* `from app.core.config import settings`: the first import in a process
\* executes config.py, which evaluates Settings(); an exception propagates out
\* of the import and ends the process.  A later import in the same process
\* finds the module in sys.modules and binds the same object.
ImportConfig(p) ==
    /\ pc[p] = "import_config"
    /\ IF ~ConfigModuleCached(p)
       THEN LET m == ConfigModule(environ[p], dotfile) IN
            /\ loads' = [loads EXCEPT ![p] = loads[p] + 1]
            /\ settings' = [settings EXCEPT ![p] = m.settings]
            /\ error' = [error EXCEPT ![p] = m.error]
            /\ pc' = [pc EXCEPT ![p] = m.pc]
       ELSE /\ pc' = [pc EXCEPT ![p] = "load_dotenv"]
            /\ UNCHANGED <<loads, settings, error>>
    /\ UNCHANGED <<environ, dotfile, modname, app, listener, response>>

\* load_dotenv(): every key of the file that the environment does not hold is
\* added to os.environ; keys already set are kept (override is off)
DotenvInto(env, file) ==
    [k \in DOMAIN env \cup DOMAIN file |-> IF k \in DOMAIN env THEN env[k] ELSE file[k]]

LoadDotenv(p) ==
    /\ pc[p] = "load_dotenv"
    /\ environ' = [environ EXCEPT ![p] = DotenvInto(environ[p], dotfile)]
    /\ pc' = [pc EXCEPT ![p] = "setup_logging"]
    /\ UNCHANGED <<dotfile, modname, settings, loads, error, app, listener, response>>

\* logger = setup_logging()
SetupLogging(p) ==
    /\ pc[p] = "setup_logging"
    /\ pc' = [pc EXCEPT ![p] = "create_app"]
    /\ UNCHANGED <<environ, dotfile, modname, settings, loads, error, app, listener, response>>

\* faulty variant: allow_origins is given the allowed headers
BuildAppOriginsFromHeaders(st) ==
    [built |-> TRUE,
     title |-> st.APP_NAME,
     version |-> st.APP_VERSION,
     docs_url |-> st.DOCS_URL,
     redoc_url |-> st.REDOC_URL,
     cors |-> [allow_origins |-> st.ALLOWED_HEADERS,
               allow_credentials |-> TRUE,
               allow_methods |-> st.ALLOWED_METHODS,
               allow_headers |-> st.ALLOWED_HEADERS],
     routes |-> {"/", "/health", "/api/health"}]

\* app = FastAPI(...); app.add_middleware(CORSMiddleware, ...); the three
\* @app.get decorators
BuildApp(st) ==
    [built |-> TRUE,
     title |-> st.APP_NAME,
     version |-> st.APP_VERSION,
     docs_url |-> st.DOCS_URL,
     redoc_url |-> st.REDOC_URL,
     cors |-> [allow_origins |-> st.ALLOWED_ORIGINS,
               allow_credentials |-> TRUE,
               allow_methods |-> st.ALLOWED_METHODS,
               allow_headers |-> st.ALLOWED_HEADERS],
     routes |-> {"/", "/health", "/api/health"}]

\* the end of the module body: under `python main.py` the __main__ guard is
\* taken; imported as "main" by uvicorn, the module's app is served
CreateApp(p) ==
    /\ pc[p] = "create_app"
    /\ app' = [app EXCEPT ![p] = BuildApp(settings[p])]
    /\ pc' = [pc EXCEPT ![p] = IF modname[p] = "__main__" THEN "main_guard" ELSE "serving"]
    /\ UNCHANGED <<environ, dotfile, modname, settings, loads, error, listener, response>>

(***************************************************************************)
(* main.py, the __main__ block.                                            *)
(***************************************************************************)
\* faulty variant: reload follows the RELOAD setting alone
UvicornArgsReloadAlone(st) ==
    [host |-> st.HOST,
     port |-> st.PORT,
     reload |-> st.RELOAD,
     log_level |-> Lower(st.LOG_LEVEL)]

\* the keyword arguments of uvicorn.run("main:app", ...)
UvicornArgs(st) ==
    [host |-> st.HOST,
     port |-> st.PORT,
     reload |-> st.RELOAD /\ st.DEBUG,
     log_level |-> Lower(st.LOG_LEVEL)]

\* uvicorn.run binds the socket.  With reload on, the calling process becomes
\* the reloader and a fresh server process, started with the caller's
\* environment, imports "main" and serves main.app; with reload off the
\* calling process itself imports "main" and serves main.app.
UvicornRun(p) ==
    /\ pc[p] = "main_guard"
    /\ LET a == UvicornArgs(settings[p]) IN
       /\ listener' = [called |-> TRUE, bound |-> TRUE, args |-> a]
       /\ IF a.reload
          THEN /\ pc' = [pc EXCEPT ![p] = "supervising", !["child"] = "import_config"]
               /\ modname' = [modname EXCEPT !["child"] = "main"]
               /\ environ' = [environ EXCEPT !["child"] = environ[p]]
          ELSE /\ pc' = [pc EXCEPT ![p] = "import_config"]
               /\ modname' = [modname EXCEPT ![p] = "main"]
               /\ UNCHANGED environ
    /\ UNCHANGED <<dotfile, settings, loads, error, app, response>>

\* uvicorn.run raises instead (the address is in use, the port or the log
\* level is not one uvicorn takes): the process ends with nothing bound
UvicornRunFails(p) ==
    /\ pc[p] = "main_guard"
    /\ listener' = [called |-> TRUE, bound |-> FALSE, args |-> UvicornArgs(settings[p])]
    /\ error' = [error EXCEPT ![p] = [kind |-> "uvicorn", keys |-> {}]]
    /\ pc' = [pc EXCEPT ![p] = "exited"]
    /\ UNCHANGED <<environ, dotfile, modname, settings, loads, app, response>>

(***************************************************************************)
(* The routes and the cross-origin middleware.                             *)
(***************************************************************************)
\* the Origin header values requests are drawn with
OriginSamples == { <<"c">>, Defaults.ALLOWED_ORIGINS[1] }

\* datetime.utcnow().isoformat() + "Z": the clock reading is not modelled
Timestamp == [utcnow |-> "now", suffix |-> "Z"]

\* faulty variant: the version is the literal of the default
RootLiteralVersion(st) ==
    [message |-> "Markdown Document Management System API",
     version |-> <<"0",".","1",".","0">>,
     status |-> "running",
     docs_url |-> st.DOCS_URL,
     redoc_url |-> st.REDOC_URL]

\* root()
Root(st) ==
    [message |-> "Markdown Document Management System API",
     version |-> st.APP_VERSION,
     status |-> "running",
     docs_url |-> st.DOCS_URL,
     redoc_url |-> st.REDOC_URL]

\* health_check()
HealthCheck(st) ==
    [status |-> "healthy",
     application |-> st.APP_NAME,
     version |-> st.APP_VERSION,
     environment |-> st.ENVIRONMENT,
     timestamp |-> Timestamp]

\* api_health_check()
ApiHealthCheck(st) ==
    [status |-> "healthy",
     checks |-> [database |-> "not_implemented",
                 redis |-> "not_implemented",
                 git_service |-> "not_implemented"],
     version |-> st.APP_VERSION,
     environment |-> st.ENVIRONMENT,
     timestamp |-> Timestamp]

Handler(route, st) ==
    CASE route = "/" -> Root(st)
      [] route = "/health" -> HealthCheck(st)
      [] route = "/api/health" -> ApiHealthCheck(st)

\* The headers CORSMiddleware, configured as in app.add_middleware, adds to
\* the response of a GET request.  origin is <<>> for a request without an
\* Origin header and <<o>> for one with the value o.  A "*" among
\* allow_origins allows every origin.
CorsHeaders(cors, origin, has_cookie) ==
    LET n == Len(cors.allow_origins)
        allow_all == \E i \in 1..n : cors.allow_origins[i] = <<"*">>
        listed == \E i \in 1..n : cors.allow_origins[i] = origin[1]
        simple == Bind(IF allow_all
                       THEN Bind(EmptyMap, "access-control-allow-origin", <<"*">>)
                       ELSE EmptyMap,
                       "access-control-allow-credentials", <<"t","r","u","e">>)
        explicit == Bind(Bind(simple, "access-control-allow-origin", origin[1]),
                         "vary", <<"O","r","i","g","i","n">>)
    IN  IF origin = <<>> THEN EmptyMap
        ELSE IF allow_all /\ has_cookie THEN explicit
        ELSE IF ~allow_all /\ listed THEN explicit
        ELSE simple

\* one GET request to a registered route, served by the module's app
Request(p, route, origin, has_cookie) ==
    /\ pc[p] = "serving"
    /\ route \in app[p].routes
    /\ response' = [response EXCEPT ![p] =
                      [sent |-> TRUE,
                       route |-> route,
                       origin |-> origin,
                       status |-> 200,
                       body |-> Handler(route, settings[p]),
                       headers |-> CorsHeaders(app[p].cors, origin, has_cookie)]]
    /\ UNCHANGED <<environ, dotfile, pc, modname, settings, loads, error, app, listener>>

Next ==
    \E p \in Procs :
        \/ ImportConfig(p)
        \/ LoadDotenv(p)
        \/ SetupLogging(p)
        \/ CreateApp(p)
        \/ UvicornRun(p)
        \/ UvicornRunFails(p)
        \/ \E route \in {"/", "/health", "/api/health"},
              origin \in {<<>>} \cup {<<o>> : o \in OriginSamples},
              has_cookie \in BOOLEAN :
                (origin = <<>> => ~has_cookie) /\ Request(p, route, origin, has_cookie)

Spec == Init /\ [][Next]_vars

(***************************************************************************)
(* Properties.                                                             *)
(***************************************************************************)
Constructed(p) == settings[p] # NoSettings
ConfigFailed(p) == error[p].kind \in {"SettingsError", "ValidationError"}

\* process p has just evaluated Settings(): the import of app.core.config
\* has returned, or its exception has ended the process
JustLoaded(p) == loads[p] = 1 /\ pc[p] \in {"load_dotenv", "exited"}

\* the string key k is supplied with to process p: the environment's if the
\* environment holds k, else the file's
Supplied(p, k) == k \in DOMAIN environ[p] \/ k \in DOMAIN dotfile
Effective(p, k) == IF k \in DOMAIN environ[p] THEN environ[p][k] ELSE dotfile[k]

\* C1: the reload argument passed to uvicorn.run is true only when both the
\* RELOAD and the DEBUG setting are true.
C1_ReloadOnlyWithDebug ==
    listener.called =>
        (listener.args.reload => (settings["parent"].RELOAD /\ settings["parent"].DEBUG))

\* RELOAD=true with DEBUG=false has started the listener with reload off
C1_Witness ==
    /\ listener.called /\ listener.bound
    /\ settings["parent"].RELOAD /\ ~settings["parent"].DEBUG
    /\ ~listener.args.reload

C2_FourTrue == { <<"t","r","u","e">>, <<"1">> }
C2_FourFalse == { <<"f","a","l","s","e">>, <<"0">> }
C2_MoreTrue == { <<"t">>, <<"y">>, <<"y","e","s">>, <<"o","n">> }
C2_MoreFalse == { <<"f">>, <<"n">>, <<"n","o">>, <<"o","f","f">> }

\* C2, as stated: a DEBUG or RELOAD string equal to "true", "false", "1" or "0"
\* in any letter case is coerced to that boolean, and every other string makes
\* the configuration load fail.
C2_AsStated ==
    \A p \in Procs : \A k \in BoolFields :
        (JustLoaded(p) /\ Supplied(p, k)) =>
            LET s == Lower(Effective(p, k)) IN
            IF s \in C2_FourTrue \cup C2_FourFalse
            THEN Constructed(p) => (settings[p][k] = (s \in C2_FourTrue))
            ELSE ~Constructed(p)

\* C2, amended: a DEBUG or RELOAD string equal, in any letter case, to one of
\* true/1/t/y/yes/on is coerced to true and to one of false/0/f/n/no/off to
\* false; every other string makes the configuration load fail.
C2_BoolCoercion ==
    \A p \in Procs : \A k \in BoolFields :
        (JustLoaded(p) /\ Supplied(p, k)) =>
            LET s == Lower(Effective(p, k))
                yes == C2_FourTrue \cup C2_MoreTrue
                no == C2_FourFalse \cup C2_MoreFalse
            IN  IF s \in yes \cup no
                THEN Constructed(p) => (settings[p][k] = (s \in yes))
                ELSE ~Constructed(p)

\* RELOAD=False (capitalised) was loaded as false and DEBUG=yes as true
C2_Witness ==
    /\ DOMAIN environ["parent"] = {"DEBUG", "RELOAD"}
    /\ environ["parent"]["RELOAD"] = <<"F","a","l","s","e">>
    /\ environ["parent"]["DEBUG"] = <<"y","e","s">>
    /\ Constructed("parent")
    /\ settings["parent"].RELOAD = FALSE /\ settings["parent"].DEBUG = TRUE

C3_Documented ==
    [APP_NAME |-> <<"M","a","r","k","d","o","w","n"," ","D","o","c","u","m","e","n","t"," ",
                    "M","a","n","a","g","e","m","e","n","t"," ","S","y","s","t","e","m">>,
     APP_VERSION |-> <<"0",".","1",".","0">>,
     DEBUG |-> TRUE,
     SECRET_KEY |-> <<"d","e","v","-","s","e","c","r","e","t","-","k","e","y","-","c","h","a",
                      "n","g","e","-","i","n","-","p","r","o","d","u","c","t","i","o","n">>,
     ENVIRONMENT |-> <<"d","e","v","e","l","o","p","m","e","n","t">>,
     HOST |-> <<"0",".","0",".","0",".","0">>,
     PORT |-> 8000,
     RELOAD |-> TRUE,
     DATABASE_URL |-> <<"p","o","s","t","g","r","e","s","q","l",":","/","/","u","s","e","r",
                        ":","p","a","s","s","w","o","r","d","@","l","o","c","a","l","h","o",
                        "s","t",":","5","4","3","2","/","m","d","e","d","i","t","o","r">>,
     ALLOWED_ORIGINS |->
        << <<"h","t","t","p",":","/","/","l","o","c","a","l","h","o","s","t",":","3","0","0","0">>,
           <<"h","t","t","p",":","/","/","1","2","7",".","0",".","0",".","1",":","3","0","0","0">> >>,
     ALLOWED_METHODS |-> << <<"G","E","T">>, <<"P","O","S","T">>, <<"P","U","T">>,
                            <<"D","E","L","E","T","E">>, <<"O","P","T","I","O","N","S">> >>,
     ALLOWED_HEADERS |-> << <<"*">> >>,
     LOG_LEVEL |-> <<"I","N","F","O">>,
     LOG_FORMAT |-> <<"%","(","a","s","c","t","i","m","e",")","s"," ","-"," ","%","(","n","a",
                      "m","e",")","s"," ","-"," ","%","(","l","e","v","e","l","n","a","m","e",
                      ")","s"," ","-"," ","%","(","m","e","s","s","a","g","e",")","s">>,
     DOCS_URL |-> <<"/","d","o","c","s">>,
     REDOC_URL |-> <<"/","r","e","d","o","c">>]

\* C3: with nothing supplied by the environment or the .env file, Settings()
\* succeeds and every field has its documented default.
C3_DefaultsWhenNothingSupplied ==
    \A p \in Procs :
        (JustLoaded(p) /\ DOMAIN environ[p] = {} /\ DOMAIN dotfile = {}) =>
            (Constructed(p) /\ \A k \in Fields : settings[p][k] = C3_Documented[k])

\* the parent has constructed its settings from an empty environment and file
C3_Witness ==
    /\ loads["parent"] = 1 /\ Constructed("parent")
    /\ DOMAIN environ["parent"] = {} /\ DOMAIN dotfile = {}
    /\ settings["parent"].PORT = 8000

\* a string of decimal digits with an optional sign
C4_IsInteger(s) ==
    LET b == IF Len(s) > 0 /\ s[1] \in {"-", "+"} THEN Tail(s) ELSE s
    IN  Len(b) > 0 /\ \A i \in 1..Len(b) : b[i] \in {"0","1","2","3","4","5","6","7","8","9"}

C4_BadPort(p) == JustLoaded(p) /\ Supplied(p, "PORT") /\ ~C4_IsInteger(Effective(p, "PORT"))

\* C4, as stated: when PORT is supplied with a string that is not an integer,
\* Settings() fails with an error naming PORT and produces no configuration.
C4_AsStated ==
    \A p \in Procs :
        C4_BadPort(p) => (~Constructed(p) /\ ConfigFailed(p) /\ "PORT" \in error[p].keys)

\* some source supplies a list-valued field with a string that is not JSON
C4_UndecodableList(p) ==
    \E k \in ListFields :
        \/ k \in DOMAIN environ[p] /\ ~JsonOk(environ[p][k])
        \/ k \in DOMAIN dotfile /\ ~JsonOk(dotfile[k])

\* C4, amended: when the PORT string in effect (the environment's, else the
\* file's) is not an integer, Settings() fails and produces no configuration;
\* the error names PORT unless the environment or the file supplies a
\* list-valued field with a string that is not valid JSON, in which case the
\* error names that list-valued field alone.
C4_BadPortFailsLoad ==
    \A p \in Procs :
        C4_BadPort(p) =>
            /\ ~Constructed(p) /\ ConfigFailed(p) /\ pc[p] = "exited"
            /\ IF C4_UndecodableList(p)
               THEN error[p].kind = "SettingsError" /\ error[p].keys \subseteq ListFields
               ELSE error[p].kind = "ValidationError" /\ "PORT" \in error[p].keys

\* PORT=invalid-port alone: the load has failed with an error naming PORT
C4_Witness ==
    /\ DOMAIN environ["parent"] = {"PORT"}
    /\ environ["parent"]["PORT"] = <<"i","n","v","a","l","i","d","-","p","o","r","t">>
    /\ DOMAIN dotfile = {}
    /\ ~Constructed("parent") /\ pc["parent"] = "exited"
    /\ error["parent"].keys = {"PORT"}

C6_IsDelimited(s) ==
    /\ \A i \in 1..Len(s) : s[i] \notin {"[", "]", "\""}
    /\ \E i \in 1..Len(s) : s[i] \in {",", ";"}

\* the items of a delimited string
RECURSIVE C6_Split(_, _, _)
C6_Split(s, i, cur) ==
    IF i > Len(s) THEN <<cur>>
    ELSE IF s[i] \in {",", ";"} THEN <<cur>> \o C6_Split(s, i + 1, <<>>)
    ELSE C6_Split(s, i + 1, Append(cur, s[i]))

\* every key but k that is supplied is supplied acceptably
C6_OthersFine(p, k) ==
    \A j \in Fields \ {k} :
        /\ j \in DOMAIN environ[p] => CoerceOk(j, environ[p][j])
        /\ j \in DOMAIN dotfile => CoerceOk(j, dotfile[j])

\* C6, as stated: a list-valued field supplied with a plain delimited string
\* is loaded as the list of the string's items.
C6_AsStated ==
    \A p \in Procs : \A k \in ListFields :
        (JustLoaded(p) /\ Supplied(p, k) /\ C6_IsDelimited(Effective(p, k))
                      /\ C6_OthersFine(p, k)) =>
            (Constructed(p) /\ settings[p][k] = C6_Split(Effective(p, k), 1, <<>>))

\* the list a JSON array of strings stands for, for the arrays supplied
C6_Items(s) ==
    CASE s = <<"[","\"","b","\"",",","\"","c","\"","]">> -> << <<"b">>, <<"c">> >>
      [] s = <<"[","\"","*","\"","]">> -> << <<"*">> >>
      [] s = <<"[","\"","d","\"","]">> -> << <<"d">> >>

\* C6, amended: a list-valued field accepts a JSON array of strings, which is
\* loaded as the list of its items; a plain delimited string, supplied by the
\* environment or by the file, makes the configuration load fail with an
\* error naming a list-valued field.
C6_ListsAreJsonArrays ==
    \A p \in Procs : \A k \in ListFields :
        (JustLoaded(p) /\ Supplied(p, k)) =>
            /\ (Constructed(p) /\ Effective(p, k)[1] = "[") =>
                    settings[p][k] = C6_Items(Effective(p, k))
            /\ ( \/ (k \in DOMAIN environ[p] /\ C6_IsDelimited(environ[p][k]))
                 \/ (k \in DOMAIN dotfile /\ C6_IsDelimited(dotfile[k])) ) =>
                    (~Constructed(p) /\ error[p].kind = "SettingsError"
                                     /\ error[p].keys \subseteq ListFields
                                     /\ error[p].keys # {})

\* with ALLOWED_METHODS=b,c in the environment and nothing else supplied, the
\* load has failed with an error naming ALLOWED_METHODS
C6_Witness ==
    /\ DOMAIN environ["parent"] = {"ALLOWED_METHODS"} /\ DOMAIN dotfile = {}
    /\ environ["parent"]["ALLOWED_METHODS"] = <<"b",",","c">>
    /\ loads["parent"] = 1
    /\ ~Constructed("parent") /\ pc["parent"] = "exited"
    /\ error["parent"].keys = {"ALLOWED_METHODS"}

\* C7: a process evaluates Settings() at most once, has done so before it
\* serves any request, and no step of the process (load_dotenv, the
\* construction of the application, a second execution of main.py, a request
\* to any route) changes a constructed configuration.
C7_ConstructedOnceNeverChanged ==
    /\ [](\A p \in Procs :
            /\ loads[p] <= 1
            /\ (pc[p] = "serving" \/ response[p].sent) => (loads[p] = 1 /\ Constructed(p)))
    /\ [][\A p \in Procs :
            /\ Constructed(p) => settings'[p] = settings[p]
            /\ loads[p] = 1 => loads'[p] = 1]_vars

\* the parent has executed main.py twice (as __main__, then as "main" for
\* uvicorn), its environment was extended by load_dotenv, and it has answered
\* a request, with one evaluation of Settings()
C7_Witness ==
    /\ modname["parent"] = "main"
    /\ response["parent"].sent
    /\ loads["parent"] = 1
    /\ DOMAIN dotfile # {} /\ DOMAIN dotfile \subseteq DOMAIN environ["parent"]
    /\ Constructed("parent")

\* C8: a process whose configuration load failed has exited with the listener
\* never bound and uvicorn.run never called, and a process is in the serving
\* state only with a successfully constructed configuration.
C8_NoServingAfterFailedLoad ==
    \A p \in Procs :
        /\ ConfigFailed(p) =>
              (pc[p] = "exited" /\ ~listener.called /\ ~listener.bound
                                /\ ~Constructed(p) /\ ~app[p].built)
        /\ pc[p] = "serving" =>
              (Constructed(p) /\ ~ConfigFailed(p) /\ loads[p] = 1 /\ listener.bound)
        /\ (loads[p] = 1 /\ ~Constructed(p)) => ConfigFailed(p)

\* a load has failed validation and the process has exited with nothing bound
C8_Witness ==
    /\ error["parent"].kind = "ValidationError"
    /\ pc["parent"] = "exited"
    /\ ~listener.bound

C10_Matches(o, entries) ==
    \E i \in 1..Len(entries) : entries[i] = o \/ entries[i] = <<"*">>

\* C10: a response to a request with an Origin header carries an
\* allow-origin header exactly when the Origin matches an entry of the
\* configuration's ALLOWED_ORIGINS.
C10_AllowOriginIffListed ==
    \A p \in Procs :
        (response[p].sent /\ response[p].origin # <<>>) =>
            ( "access-control-allow-origin" \in DOMAIN response[p].headers
              <=> C10_Matches(response[p].origin[1], settings[p].ALLOWED_ORIGINS) )

\* under ALLOWED_ORIGINS=["b","c"] a request with Origin c was answered with
\* allow-origin c
C10_Witness ==
    \E p \in Procs :
        /\ response[p].sent /\ response[p].origin = << <<"c">> >>
        /\ settings[p].ALLOWED_ORIGINS = << <<"b">>, <<"c">> >>
        /\ "access-control-allow-origin" \in DOMAIN response[p].headers
        /\ response[p].headers["access-control-allow-origin"] = <<"c">>
====
